---- MODULE Spec2Model ----
(***************************************************************************)
(* CalculatorTool of verl/tools/gsm8k_calc.py: a per-session store of      *)
(* {expression, result, expected_result, reward} records with the four     *)
(* coroutines create, execute, calc_reward and release.                    *)
(*                                                                         *)
(* Numbers.  A Python number is a record [type, hi, lo, big].  Its value   *)
(* is (hi * LIMB + lo) * 1e-11 with 0 <= lo < LIMB, an exact fixed-point    *)
(* number with eleven decimals, so that the three tolerances of            *)
(* calc_reward (1e-10, 0.01, 0.1) and distances below the smallest of them  *)
(* are all representable.  big = TRUE marks an int whose magnitude is      *)
(* beyond the range of a float (Python ints are unbounded).                *)
(*                                                                         *)
(* Rewards are in hundredths: 100, 80, 50, 0 for the tiers 1.0, 0.8, 0.5,  *)
(* 0.0 and -5 for the penalty -0.05.                                       *)
(***************************************************************************)
EXTENDS Integers, Sequences, FiniteSets, TLC

VARIABLES
    instance_dict,  \* self._instance_dict: session id -> session record
    uuid_count,     \* how many identifiers uuid4() has handed out
    last,           \* the call made by the latest step and its outcome
    evals,          \* history: per session, what its execute calls evaluated to
    trail           \* history: the two calls before the latest one (SpecTrail only)

vars == <<instance_dict, uuid_count, last, evals, trail>>

----------------------------------------------------------------------------
(* Bounds *)

\* uuid4() never repeats; the model lets it be called at most MaxUuid times.
MaxUuid == 1

----------------------------------------------------------------------------
(* Python values *)

LIMB == 10^6

PyNum(t, h, l) == [type |-> t, hi |-> h, lo |-> l, big |-> FALSE, text |-> ""]
PyFloat(h, l) == PyNum("float", h, l)
PyInt(n) == PyNum("int", n * 100000, 0)
PyBigInt == [type |-> "int", hi |-> 0, lo |-> 0, big |-> TRUE, text |-> ""]
PyStr(s) == [type |-> "str", hi |-> 0, lo |-> 0, big |-> FALSE, text |-> s]
None == [type |-> "NoneType", hi |-> 0, lo |-> 0, big |-> FALSE, text |-> ""]

\* a - b on two finite numbers, with the borrow between the limbs
NumSub(a, b) ==
    IF a.lo >= b.lo
    THEN [hi |-> a.hi - b.hi, lo |-> a.lo - b.lo]
    ELSE [hi |-> a.hi - b.hi - 1, lo |-> a.lo - b.lo + LIMB]

NumNeg(a) ==
    IF a.lo = 0
    THEN [hi |-> -a.hi, lo |-> 0]
    ELSE [hi |-> -a.hi - 1, lo |-> LIMB - a.lo]

NumAbs(a) == IF a.hi < 0 THEN NumNeg(a) ELSE a

NumLess(a, b) == a.hi < b.hi \/ (a.hi = b.hi /\ a.lo < b.lo)

----------------------------------------------------------------------------
(* The library calls of execute: json.loads, str, eval, float *)

\* What the builtin eval(expression, {"__builtins__": {}}, {"abs": abs,
\* "round": round}) of line 72 does on each expression text of the model:
\* the exception it raises ("none" when it returns) and the value it returns.
EVAL_TABLE ==
    << [src |-> "",              exc |-> "SyntaxError",       val |-> None],
       [src |-> "0.3",           exc |-> "none",              val |-> PyFloat(30000, 0)],
       [src |-> "0.30000000005", exc |-> "none",              val |-> PyFloat(30000, 5)],
       [src |-> "0.3000000001",  exc |-> "none",              val |-> PyFloat(30000, 10)],
       [src |-> "0.31",          exc |-> "none",              val |-> PyFloat(31000, 0)],
       [src |-> "0.4",           exc |-> "none",              val |-> PyFloat(40000, 0)],
       [src |-> "5",             exc |-> "none",              val |-> PyInt(5)],
       [src |-> "'0.3'",         exc |-> "none",              val |-> PyStr("0.3")],
       [src |-> "'abc'",         exc |-> "none",              val |-> PyStr("abc")],
       [src |-> "1/0",           exc |-> "ZeroDivisionError", val |-> None],
       [src |-> "__import__('os').system('ls')",
                                 exc |-> "NameError",         val |-> None],
       [src |-> "10**400",       exc |-> "none",              val |-> PyBigInt] >>

Expressions == {EVAL_TABLE[i].src : i \in DOMAIN EVAL_TABLE}

PyEval(expression) ==
    LET e == CHOOSE i \in DOMAIN EVAL_TABLE : EVAL_TABLE[i].src = expression
    IN  [exc |-> EVAL_TABLE[e].exc, val |-> EVAL_TABLE[e].val]

\* float(x) of line 74, reached for a value that is neither int nor float:
\* a str holding a decimal literal converts, any other str is a ValueError.
PyFloatOf(x) ==
    IF x.type = "str" /\ x.text = "0.3"
    THEN [exc |-> "none", val |-> PyFloat(30000, 0)]
    ELSE IF x.type = "str"
    THEN [exc |-> "ValueError", val |-> None]
    ELSE [exc |-> "TypeError", val |-> None]

\* str(x) of line 66 for a JSON number
DIGITS == <<"0", "1", "2", "3", "4", "5", "6", "7", "8", "9">>
PyStrOf(x) == DIGITS[(x.hi \div 100000) + 1]

\* A parsed JSON document: its Python type and, for a dict, its keys and the
\* value under "expression".
JDict(keys, e) == [kind |-> "dict", keys |-> keys, expression |-> e]
JOther(kind) == [kind |-> kind, keys |-> {}, expression |-> None]

ExpressionDoc(e) == "{\"expression\": \"" \o e \o "\"}"

\* The request payloads of the model: parameters is a str (line 57).
PlainDocs == {"", "not json", "null", "[1, 2]", "{}", "{\"expression\": 5}"}
Payloads == PlainDocs \cup {ExpressionDoc(e) : e \in Expressions}

\* json.loads(parameters) of line 59
JsonLoads(parameters) ==
    IF parameters \in {"", "not json"}
    THEN [exc |-> "JSONDecodeError", doc |-> JOther("NoneType")]
    ELSE IF parameters = "null"
    THEN [exc |-> "none", doc |-> JOther("NoneType")]
    ELSE IF parameters = "[1, 2]"
    THEN [exc |-> "none", doc |-> JOther("list")]
    ELSE IF parameters = "{}"
    THEN [exc |-> "none", doc |-> JDict({}, None)]
    ELSE IF parameters = "{\"expression\": 5}"
    THEN [exc |-> "none", doc |-> JDict({"expression"}, PyInt(5))]
    ELSE LET e == CHOOSE x \in Expressions : ExpressionDoc(x) = parameters
         IN  [exc |-> "none", doc |-> JDict({"expression"}, PyStr(e))]

\* _parameters.get("expression", "") of line 64
DictGet(doc, default) ==
    IF "expression" \in doc.keys THEN doc.expression ELSE default

----------------------------------------------------------------------------
(* calc_reward *)

\* result - expected of line 98.  int - float converts the int to a float
\* first, which raises OverflowError for an int beyond the range of a float.
PySubRaises(a, b) ==
    \/ a.big /\ a.type = "int" /\ b.type = "float"
    \/ b.big /\ b.type = "int" /\ a.type = "float"

\* abs(result - expected): a distance [big, hi, lo]
PyAbsDiff(a, b) ==
    IF a.big \/ b.big
    THEN [big |-> TRUE, hi |-> 0, lo |-> 0]
    ELSE LET d == NumAbs(NumSub(a, b))
         IN  [big |-> FALSE, hi |-> d.hi, lo |-> d.lo]

DistLess(d, tol) == ~d.big /\ NumLess(d, tol)

TOL_EXACT == [hi |-> 0, lo |-> 10]          \* 1e-10
TOL_VERY_CLOSE == [hi |-> 1000, lo |-> 0]   \* 0.01
TOL_CLOSE == [hi |-> 10000, lo |-> 0]       \* 0.1

REWARD_EXACT == 100
REWARD_VERY_CLOSE == 80
REWARD_CLOSE == 50
REWARD_NONE == 0
PENALTY == -5

\* the tier table of lines 98-105 on a distance
Tier(dist) ==
    IF DistLess(dist, TOL_EXACT) THEN REWARD_EXACT
    ELSE IF DistLess(dist, TOL_VERY_CLOSE) THEN REWARD_VERY_CLOSE
    ELSE IF DistLess(dist, TOL_CLOSE) THEN REWARD_CLOSE
    ELSE REWARD_NONE

\* calc_reward without the test for a missing target: None enters the
\* subtraction, a TypeError
CalcReward_NoTargetCheck(d, instance_id) ==
    IF instance_id \notin DOMAIN d
    THEN [exc |-> "KeyError", value |-> 0]
    ELSE LET result == d[instance_id].result
             expected == d[instance_id].expected_result
         IN  IF result = None
             THEN [exc |-> "none", value |-> REWARD_NONE]
             ELSE IF expected = None
             THEN [exc |-> "TypeError", value |-> 0]
             ELSE IF PySubRaises(result, expected)
             THEN [exc |-> "OverflowError", value |-> 0]
             ELSE [exc |-> "none", value |-> Tier(PyAbsDiff(result, expected))]

\* calc_reward(instance_id) on the store d: the exception it raises ("none"
\* when it returns) and the value it returns.
CalcReward(d, instance_id) ==
    IF instance_id \notin DOMAIN d
    THEN [exc |-> "KeyError", value |-> 0]
    ELSE LET result == d[instance_id].result
             expected == d[instance_id].expected_result
         IN  IF result = None \/ expected = None
             THEN [exc |-> "none", value |-> REWARD_NONE]
             ELSE IF PySubRaises(result, expected)
             THEN [exc |-> "OverflowError", value |-> 0]
             ELSE [exc |-> "none", value |-> Tier(PyAbsDiff(result, expected))]

----------------------------------------------------------------------------
(* execute *)

\* lines 58-68 without the except clause: JSONDecodeError leaves the block
ParseExpression_NoExcept(parameters) ==
    LET j == JsonLoads(parameters)
        _parameters == j.doc
    IN  IF j.exc # "none"
        THEN [exc |-> j.exc, expression |-> ""]
        ELSE IF _parameters.kind = "dict"
        THEN LET expression == DictGet(_parameters, PyStr(""))
             IN  [exc |-> "none",
                  expression |-> IF expression.type = "str"
                                 THEN expression.text
                                 ELSE PyStrOf(expression)]
        ELSE [exc |-> "none", expression |-> ""]

\* lines 58-68: the expression text of a request payload, and the exception
\* that leaves the block ("none": JSONDecodeError is the one json.loads raises
\* on a str, and it is caught)
ParseExpression(parameters) ==
    LET j == JsonLoads(parameters)
        _parameters == IF j.exc = "JSONDecodeError" THEN JDict({}, None) ELSE j.doc
    IN  IF j.exc \notin {"none", "JSONDecodeError"}
        THEN [exc |-> j.exc, expression |-> ""]
        ELSE IF _parameters.kind = "dict"
        THEN LET expression == DictGet(_parameters, PyStr(""))
             IN  [exc |-> "none",
                  expression |-> IF expression.type = "str"
                                 THEN expression.text
                                 ELSE PyStrOf(expression)]
        ELSE [exc |-> "none", expression |-> ""]

\* lines 70-77 with the coercion of line 74 left out: a value that is not a
\* number is kept as it is
EvalResult_NoCoercion(expression) ==
    LET ev == PyEval(expression)
    IN  IF ev.exc # "none" THEN None ELSE ev.val

\* lines 70-77: the result of evaluating the expression, None on any Exception
EvalResult(expression) ==
    LET ev == PyEval(expression)
    IN  IF ev.exc # "none"
        THEN None
        ELSE IF ev.val.type \in {"int", "float"}
        THEN ev.val
        ELSE LET f == PyFloatOf(ev.val)
             IN  IF f.exc # "none" THEN None ELSE f.val

\* ParseExpression and EvalResult are pure: tabulated once over the model's
\* payloads and expressions.
PARSED == [p \in Payloads |-> ParseExpression(p)]
EVALUATED == [e \in Expressions |-> EvalResult(e)]

\* line 84
ToolReward(reward, stored) == IF reward > stored THEN 0 ELSE PENALTY

\* execute that leaves the stored result alone when the evaluation fails
ExecuteOn_KeepResult(d, instance_id, parameters) ==
    LET p == PARSED[parameters]
        expression == p.expression
        result == EVALUATED[expression]
        raised(exc, dict, ran) ==
            [exc |-> exc, dict |-> dict, tool_reward |-> 0,
             message |-> [expression |-> "", result |-> None],
             metadata |-> <<>>, evaluated |-> ran]
    IN  IF p.exc # "none"
        THEN raised(p.exc, d, "none")
        ELSE IF instance_id \notin DOMAIN d
        THEN raised("KeyError", d, "none")
        ELSE LET d1 == [d EXCEPT ![instance_id].expression = expression,
                                 ![instance_id].result =
                                     IF result = None THEN @ ELSE result]
                 ran == IF result = None THEN "fail" ELSE "ok"
                 r == CalcReward(d1, instance_id)
             IN  IF r.exc # "none"
                 THEN raised(r.exc, d1, ran)
                 ELSE [exc |-> "none",
                       dict |-> [d1 EXCEPT ![instance_id].reward = r.value],
                       tool_reward |-> ToolReward(r.value, d1[instance_id].reward),
                       message |-> [expression |-> expression, result |-> result],
                       metadata |-> <<>>,
                       evaluated |-> ran]

\* execute that looks the session up with a default: an unknown identifier
\* gets a new session without a target instead of a KeyError
ExecuteOn_Autocreate(d, instance_id, parameters) ==
    LET p == PARSED[parameters]
        expression == p.expression
        result == EVALUATED[expression]
        d0 == IF instance_id \in DOMAIN d
              THEN d
              ELSE [x \in DOMAIN d \cup {instance_id} |->
                      IF x = instance_id
                      THEN [expression |-> "", result |-> None,
                            expected_result |-> None, reward |-> 0]
                      ELSE d[x]]
        d1 == [d0 EXCEPT ![instance_id].expression = expression,
                         ![instance_id].result = result]
        r == CalcReward(d1, instance_id)
    IN  IF p.exc # "none" \/ r.exc # "none"
        THEN [exc |-> IF p.exc # "none" THEN p.exc ELSE r.exc,
              dict |-> IF p.exc # "none" THEN d ELSE d1, tool_reward |-> 0,
              message |-> [expression |-> "", result |-> None],
              metadata |-> <<>>, evaluated |-> "none"]
        ELSE [exc |-> "none",
              dict |-> [d1 EXCEPT ![instance_id].reward = r.value],
              tool_reward |-> ToolReward(r.value, d1[instance_id].reward),
              message |-> [expression |-> expression, result |-> result],
              metadata |-> <<>>,
              evaluated |-> "none"]

\* execute that keeps the reward on the tool, not on the session: line 86
\* writes it into every session of the store
ExecuteOn_SharedReward(d, instance_id, parameters) ==
    LET p == PARSED[parameters]
        expression == p.expression
        result == EVALUATED[expression]
        raised(exc, dict, ran) ==
            [exc |-> exc, dict |-> dict, tool_reward |-> 0,
             message |-> [expression |-> "", result |-> None],
             metadata |-> <<>>, evaluated |-> ran]
    IN  IF p.exc # "none"
        THEN raised(p.exc, d, "none")
        ELSE IF instance_id \notin DOMAIN d
        THEN raised("KeyError", d, "none")
        ELSE LET d1 == [d EXCEPT ![instance_id].expression = expression,
                                 ![instance_id].result = result]
                 ran == IF result = None THEN "fail" ELSE "ok"
                 r == CalcReward(d1, instance_id)
             IN  IF r.exc # "none"
                 THEN raised(r.exc, d1, ran)
                 ELSE [exc |-> "none",
                       dict |-> [x \in DOMAIN d1 |->
                                   [d1[x] EXCEPT !.reward = r.value]],
                       tool_reward |-> ToolReward(r.value, d1[instance_id].reward),
                       message |-> [expression |-> expression, result |-> result],
                       metadata |-> <<>>,
                       evaluated |-> ran]

\* execute that writes the reward only when the evaluation succeeded: after a
\* failed evaluation the session keeps the reward it had
ExecuteOn_KeepReward(d, instance_id, parameters) ==
    LET p == PARSED[parameters]
        expression == p.expression
        result == EVALUATED[expression]
        raised(exc, dict, ran) ==
            [exc |-> exc, dict |-> dict, tool_reward |-> 0,
             message |-> [expression |-> "", result |-> None],
             metadata |-> <<>>, evaluated |-> ran]
    IN  IF p.exc # "none"
        THEN raised(p.exc, d, "none")
        ELSE IF instance_id \notin DOMAIN d
        THEN raised("KeyError", d, "none")
        ELSE LET d1 == [d EXCEPT ![instance_id].expression = expression,
                                 ![instance_id].result = result]
                 ran == IF result = None THEN "fail" ELSE "ok"
                 r == CalcReward(d1, instance_id)
             IN  IF r.exc # "none"
                 THEN raised(r.exc, d1, ran)
                 ELSE [exc |-> "none",
                       dict |-> IF result = None
                                THEN d1
                                ELSE [d1 EXCEPT ![instance_id].reward = r.value],
                       tool_reward |-> ToolReward(r.value, d1[instance_id].reward),
                       message |-> [expression |-> expression, result |-> result],
                       metadata |-> <<>>,
                       evaluated |-> ran]

\* execute that stores the expression and the result together with the
\* reward, after line 82: a call that raises there leaves the session as it was
ExecuteOn_WriteAfterScore(d, instance_id, parameters) ==
    LET p == PARSED[parameters]
        expression == p.expression
        result == EVALUATED[expression]
        raised(exc, dict, ran) ==
            [exc |-> exc, dict |-> dict, tool_reward |-> 0,
             message |-> [expression |-> "", result |-> None],
             metadata |-> <<>>, evaluated |-> ran]
    IN  IF p.exc # "none"
        THEN raised(p.exc, d, "none")
        ELSE IF instance_id \notin DOMAIN d
        THEN raised("KeyError", d, "none")
        ELSE LET d1 == [d EXCEPT ![instance_id].expression = expression,
                                 ![instance_id].result = result]
                 ran == IF result = None THEN "fail" ELSE "ok"
                 r == CalcReward(d1, instance_id)
             IN  IF r.exc # "none"
                 THEN raised(r.exc, d, ran)
                 ELSE [exc |-> "none",
                       dict |-> [d1 EXCEPT ![instance_id].reward = r.value],
                       tool_reward |-> ToolReward(r.value, d1[instance_id].reward),
                       message |-> [expression |-> expression, result |-> result],
                       metadata |-> <<>>,
                       evaluated |-> ran]

\* execute that keeps the stored reward a ratchet: line 86 stores the new
\* reward only when it exceeds the stored one
ExecuteOn_Ratchet(d, instance_id, parameters) ==
    LET p == PARSED[parameters]
        expression == p.expression
        result == EVALUATED[expression]
        raised(exc, dict, ran) ==
            [exc |-> exc, dict |-> dict, tool_reward |-> 0,
             message |-> [expression |-> "", result |-> None],
             metadata |-> <<>>, evaluated |-> ran]
    IN  IF p.exc # "none"
        THEN raised(p.exc, d, "none")
        ELSE IF instance_id \notin DOMAIN d
        THEN raised("KeyError", d, "none")
        ELSE LET d1 == [d EXCEPT ![instance_id].expression = expression,
                                 ![instance_id].result = result]
                 ran == IF result = None THEN "fail" ELSE "ok"
                 r == CalcReward(d1, instance_id)
             IN  IF r.exc # "none"
                 THEN raised(r.exc, d1, ran)
                 ELSE [exc |-> "none",
                       dict |-> [d1 EXCEPT ![instance_id].reward =
                                   IF r.value > @ THEN r.value ELSE @],
                       tool_reward |-> ToolReward(r.value, d1[instance_id].reward),
                       message |-> [expression |-> expression, result |-> result],
                       metadata |-> <<>>,
                       evaluated |-> ran]

\* execute(instance_id, parameters) on the store d: the exception that reaches
\* the caller ("none" when the call returns), the store it leaves, the triple
\* it returns and whether it evaluated an expression for an existing session.
ExecuteOn(d, instance_id, parameters) ==
    LET p == PARSED[parameters]
        expression == p.expression
        result == EVALUATED[expression]
        raised(exc, dict, ran) ==
            [exc |-> exc, dict |-> dict, tool_reward |-> 0,
             message |-> [expression |-> "", result |-> None],
             metadata |-> <<>>, evaluated |-> ran]
    IN  IF p.exc # "none"
        THEN raised(p.exc, d, "none")
        ELSE IF instance_id \notin DOMAIN d
        THEN raised("KeyError", d, "none")
        ELSE LET d1 == [d EXCEPT ![instance_id].expression = expression,
                                 ![instance_id].result = result]
                 ran == IF result = None THEN "fail" ELSE "ok"
                 r == CalcReward(d1, instance_id)
             IN  IF r.exc # "none"
                 THEN raised(r.exc, d1, ran)
                 ELSE [exc |-> "none",
                       dict |-> [d1 EXCEPT ![instance_id].reward = r.value],
                       tool_reward |-> ToolReward(r.value, d1[instance_id].reward),
                       message |-> [expression |-> expression, result |-> result],
                       metadata |-> <<>>,
                       evaluated |-> ran]

----------------------------------------------------------------------------
(* The calls *)

CallerIds == {"a"}
UUIDS == <<"u1", "u2", "u3">>
UuidIds == {UUIDS[i] : i \in 1..MaxUuid}
SessionIds == CallerIds \cup UuidIds

\* expected_result: absent or the float 0.3 for the sessions the caller names,
\* the int 5 for the sessions uuid4() names
Targets == {None, PyFloat(30000, 0)}
UuidTargets == {PyInt(5)}

NewSession(expected_result) ==
    [expression |-> "", result |-> None,
     expected_result |-> expected_result, reward |-> 0]

NoMessage == [expression |-> "", result |-> None]

\* The reward tier table as the specification states it, on a result v and a
\* target t that are both numbers.
ClaimTier(v, t) ==
    LET dist == PyAbsDiff(v, t)
    IN  IF DistLess(dist, TOL_EXACT) THEN 100
        ELSE IF DistLess(dist, TOL_VERY_CLOSE) THEN 80
        ELSE IF DistLess(dist, TOL_CLOSE) THEN 50
        ELSE 0

\* the tiered reward of a session: 0.0 when the result or the target is null
ClaimReward(session) ==
    IF session.result = None \/ session.expected_result = None
    THEN 0
    ELSE ClaimTier(session.result, session.expected_result)

\* The record of a call: its name and arguments, the exception that reached
\* the caller ("none" when it returned) and what it returned: value is the
\* float of execute and calc_reward, message and metadata the rest of
\* execute's triple.  Two observations are kept with it: existed, whether
\* the session was in the store when the call began, and repeat, whether the
\* call before an execute was an execute of the same expression on the same
\* session.
Call(op, id, given, expected, parameters, exc, value, message) ==
    [op |-> op, instance_id |-> id, given |-> given, expected_result |-> expected,
     parameters |-> parameters, exc |-> exc, value |-> value,
     message |-> message, metadata |-> <<>>,
     existed |-> id \in DOMAIN instance_dict,
     repeat |-> FALSE]

\* What is remembered of the execute calls on a session since it was created:
\* ever_ok, whether an evaluation has succeeded; latest, whether the latest
\* evaluation succeeded ("ok"), failed ("fail") or none has run ("none");
\* ok_score, the tiered reward of the latest evaluation that succeeded, and
\* returned_score, the tiered reward of the latest execute that returned
\* (both 0 when there is none).
NoEvals == [ever_ok |-> FALSE, latest |-> "none", ok_score |-> 0, returned_score |-> 0]

Init ==
    /\ instance_dict = <<>>
    /\ uuid_count = 0
    /\ last = [Call("none", "", FALSE, None, "", "none", 0, NoMessage)
                EXCEPT !.existed = FALSE]
    /\ evals = <<>>
    /\ trail = <<>>

Put(f, k, v) == [x \in DOMAIN f \cup {k} |-> IF x = k THEN v ELSE f[x]]
Del(f, k) == [x \in DOMAIN f \ {k} |-> f[x]]

\* lines 46-55
CreateWith(d, instance_id, expected_result) ==
    Put(d, instance_id, NewSession(expected_result))

\* create(instance_id, expected_result) with an identifier of the caller
Create(instance_id, expected_result) ==
    /\ instance_dict' = CreateWith(instance_dict, instance_id, expected_result)
    /\ evals' = Put(evals, instance_id, NoEvals)
    /\ last' = Call("create", instance_id, TRUE, expected_result, "",
                    "none", 0, NoMessage)
    /\ UNCHANGED uuid_count

\* create(None, expected_result): the identifier is a fresh uuid4()
CreateUuid(expected_result) ==
    /\ uuid_count < MaxUuid
    /\ LET instance_id == UUIDS[uuid_count + 1]
       IN  /\ instance_dict' = CreateWith(instance_dict, instance_id, expected_result)
           /\ evals' = Put(evals, instance_id, NoEvals)
           /\ last' = Call("create", instance_id, FALSE, expected_result, "",
                           "none", 0, NoMessage)
    /\ uuid_count' = uuid_count + 1

\* lines 57-88.  One step: the coroutine awaited at line 82 returns without
\* suspending, so the event loop runs nothing else inside execute.  x is the
\* outcome of the call and score the tiered reward of the session it leaves,
\* remembered in evals.
Execute(instance_id, parameters) ==
    \E x \in {ExecuteOn(instance_dict, instance_id, parameters)} :
    \E score \in {IF x.evaluated = "none"
                  THEN 0
                  ELSE ClaimReward(x.dict[instance_id])} :
        /\ instance_dict' = x.dict
        /\ evals' = IF x.evaluated = "none"
                    THEN evals
                    ELSE [evals EXCEPT ![instance_id] =
                            [ever_ok |-> @.ever_ok \/ x.evaluated = "ok",
                             latest |-> x.evaluated,
                             ok_score |-> IF x.evaluated = "ok"
                                          THEN score ELSE @.ok_score,
                             returned_score |-> IF x.exc = "none"
                                                THEN score ELSE @.returned_score]]
        /\ last' = [Call("execute", instance_id, TRUE, None, parameters,
                         x.exc, x.tool_reward, x.message)
                        EXCEPT !.repeat =
                                   /\ instance_id \in DOMAIN instance_dict
                                   /\ last.op = "execute"
                                   /\ last.instance_id = instance_id
                                   /\ PARSED[last.parameters].expression
                                        = PARSED[parameters].expression]
        /\ UNCHANGED uuid_count

\* calc_reward that consumes the result it scored
CalcRewardCall_Consuming(instance_id) ==
    LET r == CalcReward(instance_dict, instance_id)
    IN  /\ last' = Call("calc_reward", instance_id, TRUE, None, "",
                        r.exc, r.value, NoMessage)
        /\ instance_dict' = IF r.exc = "none"
                            THEN [instance_dict EXCEPT ![instance_id].result = None]
                            ELSE instance_dict
        /\ UNCHANGED <<uuid_count, evals>>

\* lines 90-105, called by the user of the tool
CalcRewardCall(instance_id) ==
    LET r == CalcReward(instance_dict, instance_id)
    IN  /\ last' = Call("calc_reward", instance_id, TRUE, None, "",
                        r.exc, r.value, NoMessage)
        /\ UNCHANGED <<instance_dict, uuid_count, evals>>

\* lines 107-108
ReleaseOn(d, instance_id) ==
    IF instance_id \in DOMAIN d
    THEN [exc |-> "none", dict |-> Del(d, instance_id)]
    ELSE [exc |-> "KeyError", dict |-> d]

Release(instance_id) ==
    LET x == ReleaseOn(instance_dict, instance_id)
    IN  /\ instance_dict' = x.dict
        /\ evals' = IF x.exc = "none" THEN Del(evals, instance_id) ELSE evals
        /\ last' = Call("release", instance_id, TRUE, None, "",
                        x.exc, 0, NoMessage)
        /\ UNCHANGED uuid_count

\* The calls of the tool, in any order and with any arguments; trail is not
\* kept.
Next ==
    \/ \E i \in CallerIds, t \in Targets : Create(i, t) /\ UNCHANGED trail
    \/ \E t \in UuidTargets : CreateUuid(t) /\ UNCHANGED trail
    \/ \E i \in SessionIds, p \in Payloads : Execute(i, p) /\ UNCHANGED trail
    \/ \E i \in SessionIds : CalcRewardCall(i) /\ UNCHANGED trail
    \/ \E i \in SessionIds : Release(i) /\ UNCHANGED trail

Spec == Init /\ [][Next]_vars

\* The same calls with the records of the two calls before the latest one
\* kept in trail, the nearer first, for the sessions the caller names.  The
\* expressions submitted are those that score 1.0, 0.5 and 0.0 against the
\* target 0.3, one that fails to evaluate and 10**400.
TrailExpressions == {"0.3", "0.31", "0.4", "1/0", "10**400"}
TrailPayloads == {ExpressionDoc(e) : e \in TrailExpressions}

Pushed == <<last>> \o (IF trail = <<>> THEN <<>> ELSE <<trail[1]>>)

NextTrail ==
    \/ \E i \in CallerIds, t \in Targets : Create(i, t) /\ trail' = Pushed
    \/ \E i \in CallerIds, p \in TrailPayloads : Execute(i, p) /\ trail' = Pushed
    \/ \E i \in CallerIds : CalcRewardCall(i) /\ trail' = Pushed
    \/ \E i \in CallerIds : Release(i) /\ trail' = Pushed

SpecTrail == Init /\ [][NextTrail]_vars

----------------------------------------------------------------------------
(* Properties *)

\* the session the latest call addressed, when it is in the store
Addressed == instance_dict[last.instance_id]

\* the expression the latest execute submitted
Submitted == PARSED[last.parameters].expression

\* the expressions whose evaluation fails: eval raises, or the value is not a
\* number and float() of it raises
FailsToEvaluate(e) ==
    \/ PyEval(e).exc # "none"
    \/ /\ PyEval(e).val.type \notin {"int", "float"}
       /\ PyFloatOf(PyEval(e).val).exc # "none"

Operations == {"execute", "calc_reward", "release"}

\* C1: in a session with a target, once execute has submitted an expression
\* that evaluated to a number, calc_reward returns the tier of the distance
\* between the result and the target: 1.0, 0.8, 0.5 or 0.0.
C1_TierOfResult ==
    ( /\ last.op = "calc_reward"
      /\ last.existed
      /\ evals[last.instance_id].latest = "ok"
      /\ Addressed.expected_result # None )
    => /\ last.exc = "none"
       /\ last.value = ClaimTier(Addressed.result, Addressed.expected_result)

\* C2: every execute on an existing session returns the shaping reward 0.0
\* when the tiered reward of the new result exceeds the reward stored before
\* the call, and -0.05 otherwise.
C2_ShapingStep ==
    (last'.op = "execute" /\ last'.instance_id \in DOMAIN instance_dict)
    => /\ last'.exc = "none"
       /\ last'.value =
            IF ClaimReward(instance_dict'[last'.instance_id])
                 > instance_dict[last'.instance_id].reward
            THEN 0 ELSE -5

C2_ShapingReward == [][C2_ShapingStep]_vars

\* C3: the second of two consecutive execute calls that submit the same
\* expression to a session returns the shaping reward -0.05.
C3_RepeatPenalised ==
    (last.op = "execute" /\ last.repeat)
    => (last.exc = "none" /\ last.value = -5)

\* C4: execute, calc_reward and release on an identifier that is not in the
\* store (released, or never created) fail with KeyError and leave the store
\* as it was.
C4_NotFoundState ==
    (last.op \in Operations /\ ~last.existed) => last.exc = "KeyError"

C4_NotFoundStep ==
    (last'.op \in Operations /\ last'.instance_id \notin DOMAIN instance_dict)
    => instance_dict' = instance_dict

C4_NotFound == []C4_NotFoundState /\ [][C4_NotFoundStep]_vars

\* an execute on u1 fails after u1 was created and released
C4_Witness ==
    /\ last.op = "execute"
    /\ last.instance_id = "u1"
    /\ last.exc = "KeyError"
    /\ uuid_count = 1
    /\ "a" \in DOMAIN instance_dict

\* C5: an execute on an existing session whose expression fails to evaluate
\* returns its triple (message, shaping reward, empty metadata), leaves the
\* session with a null result and the tiered reward 0.0, and changes nothing
\* but that session's expression, result and reward.
C5_FailedState ==
    (last.op = "execute" /\ last.existed /\ FailsToEvaluate(Submitted))
    => /\ last.exc = "none"
       /\ last.message = [expression |-> Submitted, result |-> None]
       /\ last.value \in {0, -5}
       /\ last.metadata = <<>>
       /\ Addressed.expression = Submitted
       /\ Addressed.result = None
       /\ Addressed.reward = 0
       /\ CalcReward(instance_dict, last.instance_id) = [exc |-> "none", value |-> 0]

C5_FailedStep ==
    ( /\ last'.op = "execute"
      /\ last'.instance_id \in DOMAIN instance_dict
      /\ FailsToEvaluate(PARSED[last'.parameters].expression) )
    => /\ DOMAIN instance_dict' = DOMAIN instance_dict
       /\ \A i \in DOMAIN instance_dict :
            /\ instance_dict'[i].expected_result = instance_dict[i].expected_result
            /\ i # last'.instance_id => instance_dict'[i] = instance_dict[i]
       /\ uuid_count' = uuid_count

C5_FailedEvaluation == []C5_FailedState /\ [][C5_FailedStep]_vars

\* the unsafe expression, submitted to a session with a target after an
\* expression that evaluated
C5_Witness ==
    /\ last.op = "execute"
    /\ last.existed
    /\ Submitted = "__import__('os').system('ls')"
    /\ evals[last.instance_id].ever_ok
    /\ Addressed.expected_result # None
    /\ Addressed.reward = 0

\* the payloads that carry no expression: not JSON, empty, the JSON null, not
\* a mapping, a mapping without the field
NoExpressionPayloads == {"", "not json", "null", "[1, 2]", "{}"}

C7_OwnState ==
    (last.op = "execute" /\ last.existed /\ last.exc = "none")
    => Addressed.reward = ClaimReward(Addressed)

C7_OwnStep ==
    ( /\ last'.op = "execute"
      /\ last'.instance_id \in DOMAIN instance_dict
      /\ last'.exc = "none" )
    => last'.value =
         IF instance_dict'[last'.instance_id].reward
              > instance_dict[last'.instance_id].reward
         THEN 0 ELSE -5

C7_OthersStep ==
    \A b \in DOMAIN instance_dict :
        b # last'.instance_id
        => (b \in DOMAIN instance_dict' /\ instance_dict'[b] = instance_dict[b])

C7_Isolation == []C7_OwnState /\ [][C7_OwnStep /\ C7_OthersStep]_vars

\* two sessions with the targets 0.3 and 5 hold the same expression and
\* different rewards
C7_Witness ==
    /\ last.op = "execute"
    /\ DOMAIN instance_dict = {"a", "u1"}
    /\ instance_dict["a"].expected_result = PyFloat(30000, 0)
    /\ instance_dict["u1"].expected_result = PyInt(5)
    /\ instance_dict["a"].expression = "5"
    /\ instance_dict["u1"].expression = "5"
    /\ instance_dict["a"].reward = 0
    /\ instance_dict["u1"].reward = 100

\* C8: calc_reward changes neither the set of sessions nor any field of any
\* session.
C8_CalcRewardStep ==
    last'.op = "calc_reward"
    => (instance_dict' = instance_dict /\ uuid_count' = uuid_count)

C8_CalcRewardPure == [][C8_CalcRewardStep]_vars

\* calc_reward has returned 0.8 for a session that holds that reward
C8_Witness ==
    /\ last.op = "calc_reward"
    /\ last.existed
    /\ last.exc = "none"
    /\ last.value = 80
    /\ Addressed.reward = 80

\* C9: a session created without a target has the stored reward 0.0 and
\* calc_reward returns 0.0 for it, whatever was submitted to it.
C9_NoTarget ==
    \A i \in DOMAIN instance_dict :
        instance_dict[i].expected_result = None
        => /\ instance_dict[i].reward = 0
           /\ CalcReward(instance_dict, i) = [exc |-> "none", value |-> 0]
           /\ (last.op = "calc_reward" /\ last.instance_id = i)
                => (last.exc = "none" /\ last.value = 0)

\* calc_reward on a session without a target that holds a numeric result
C9_Witness ==
    /\ last.op = "calc_reward"
    /\ last.existed
    /\ Addressed.expected_result = None
    /\ Addressed.result = PyBigInt
    /\ evals[last.instance_id].latest = "ok"

\* C10 as stated: a session's result is null if and only if no execute on it
\* has evaluated its expression successfully since the session was created.
C10_NullIffNeverOk ==
    \A i \in DOMAIN instance_dict :
        instance_dict[i].result = None <=> ~evals[i].ever_ok

\* C10 amended: a session's result is null if and only if no execute has run
\* on it since it was created or the latest execute on it failed to evaluate
\* its expression.
C10_NullIffLatestNotOk ==
    \A i \in DOMAIN instance_dict :
        instance_dict[i].result = None <=> evals[i].latest # "ok"

\* a session whose result is null after an earlier successful evaluation
C10_Witness ==
    \E i \in DOMAIN instance_dict :
        /\ evals[i].ever_ok
        /\ evals[i].latest = "fail"
        /\ instance_dict[i].result = None

\* C11 as stated: the stored reward of every session is the tiered score of
\* the latest evaluation on it that succeeded, 0.0 when none has; a failed
\* evaluation leaves it there.
C11_LastSuccessfulScore ==
    \A i \in DOMAIN instance_dict :
        instance_dict[i].reward = evals[i].ok_score

\* C11 amended: the stored reward of every session is the score of the latest
\* execute that returned on it, which is the tiered score of its result when
\* its evaluation succeeded and 0.0 when it failed (0.0 when no execute has
\* returned); after a failed evaluation the stored reward is 0.0.
C11_LatestReturnedScore ==
    \A i \in DOMAIN instance_dict :
        /\ instance_dict[i].reward = evals[i].returned_score
        /\ evals[i].latest = "fail" => instance_dict[i].reward = 0

\* a session that scored 1.0 and then failed an evaluation holds the reward 0.0
C11_Witness ==
    \E i \in DOMAIN instance_dict :
        /\ evals[i].ok_score = 100
        /\ evals[i].latest = "fail"
        /\ instance_dict[i].reward = 0

\* C12: a session stays in the store from its creation until release is
\* called with its identifier, and until then only an execute with its
\* identifier changes its expression, result, target or reward: no create,
\* calc_reward, release or execute with another identifier does, and no
\* create with any identifier.
C12_LifecycleStep ==
    \A i \in DOMAIN instance_dict :
        /\ ~(last'.op = "release" /\ last'.instance_id = i)
             => i \in DOMAIN instance_dict'
        /\ ( /\ i \in DOMAIN instance_dict'
             /\ ~(last'.op = "execute" /\ last'.instance_id = i) )
             => instance_dict'[i] = instance_dict[i]

C12_Lifecycle == [][C12_LifecycleStep]_vars

\* C13: in every state the stored reward of every session is the tier-table
\* value of its current result against its target (0.0 when either is null),
\* which is what calc_reward returns for it.
C13_RewardOfResult ==
    \A i \in DOMAIN instance_dict :
        /\ instance_dict[i].reward = ClaimReward(instance_dict[i])
        /\ CalcReward(instance_dict, i)
             = [exc |-> "none", value |-> instance_dict[i].reward]

\* C14: every execute on an existing session stores the expression it was
\* given and the result of evaluating it, null when the evaluation failed,
\* whatever the session held before; no execute and no calc_reward changes
\* the target of any session.
C14_OverwriteState ==
    (last.op = "execute" /\ last.existed)
    => /\ Addressed.expression = Submitted
       /\ Addressed.result = EVALUATED[Submitted]
       /\ FailsToEvaluate(Submitted) => Addressed.result = None

C14_TargetStep ==
    last'.op \in {"execute", "calc_reward"}
    => \A i \in DOMAIN instance_dict :
           /\ i \in DOMAIN instance_dict'
           /\ instance_dict'[i].expected_result = instance_dict[i].expected_result

C14_Overwrite == []C14_OverwriteState /\ [][C14_TargetStep]_vars

\* a division by zero submitted to a session that held the result of 0.3
C14_Witness ==
    /\ last.op = "execute"
    /\ last.existed
    /\ Submitted = "1/0"
    /\ evals[last.instance_id].ok_score = 100
    /\ Addressed.result = None
    /\ Addressed.expected_result = PyFloat(30000, 0)

\* C15 as stated: no execute on a session lowers the session's stored reward.
C15_MonotonicStep ==
    (last'.op = "execute" /\ last'.instance_id \in DOMAIN instance_dict)
    => instance_dict'[last'.instance_id].reward
         >= instance_dict[last'.instance_id].reward

C15_Monotonic == [][C15_MonotonicStep]_vars

\* C15 amended: an execute on a session that returns sets the stored reward
\* to the tiered reward of the new result, lower than before when the new
\* result scores lower; an execute that raises leaves the stored reward as
\* it was.
C15_ReplacedStep ==
    (last'.op = "execute" /\ last'.instance_id \in DOMAIN instance_dict)
    => LET before == instance_dict[last'.instance_id]
           after == instance_dict'[last'.instance_id]
       IN  /\ last'.exc = "none" => after.reward = ClaimReward(after)
           /\ last'.exc # "none" => after.reward = before.reward

C15_Replaced == [][C15_ReplacedStep]_vars

\* an execute has brought a session that scored 0.8 down to the reward 0.0
C15_Witness ==
    /\ last.op = "execute"
    /\ last.existed
    /\ last.exc = "none"
    /\ evals[last.instance_id].ok_score = 80
    /\ evals[last.instance_id].returned_score = 0
    /\ Addressed.reward = 0

\* C16: every create returns, with or without an identifier and a target,
\* and leaves under the identifier it returns a session with the expression
\* "", a null result, the reward 0.0 and the target given, and every session
\* that was in the store before the call is in it afterwards, unchanged.
C16_CreateState ==
    last.op = "create"
    => /\ last.exc = "none"
       /\ last.instance_id \in DOMAIN instance_dict
       /\ Addressed = [expression |-> "", result |-> None,
                       expected_result |-> last.expected_result, reward |-> 0]

C16_CreateStep ==
    last'.op = "create"
    => \A i \in DOMAIN instance_dict :
           /\ i \in DOMAIN instance_dict'
           /\ instance_dict'[i] = instance_dict[i]

C16_CreateFresh == []C16_CreateState /\ [][C16_CreateStep]_vars

\* the tiered reward of the expression e for the session the latest call
\* addressed
ScoreOf(e) ==
    ClaimReward([expression |-> e, result |-> EVALUATED[e],
                 expected_result |-> Addressed.expected_result, reward |-> 0])

\* C18: in a session with a target, when three consecutive calls are
\* executes on the session, the first submitting an expression that scores
\* above 0.0, the second one that fails to evaluate or scores 0.0 and the
\* third the first expression again, the third returns the shaping reward
\* 0.0.
C18_AlternationResets ==
    ( /\ Len(trail) >= 2
      /\ last.op = "execute"
      /\ trail[1].op = "execute"
      /\ trail[2].op = "execute"
      /\ trail[1].instance_id = last.instance_id
      /\ trail[2].instance_id = last.instance_id
      /\ trail[2].existed
      /\ Addressed.expected_result # None
      /\ ScoreOf(PARSED[trail[2].parameters].expression) > 0
      /\ LET second == PARSED[trail[1].parameters].expression
         IN  FailsToEvaluate(second) \/ ScoreOf(second) = 0
      /\ Submitted = PARSED[trail[2].parameters].expression )
    => (last.exc = "none" /\ last.value = 0)

\* C19: the stored reward of every session is 0.0, 0.5, 0.8 or 1.0; every
\* execute on an existing session returns the shaping reward 0.0 or -0.05,
\* and 0.0 only when the session has a target, the evaluation succeeded and
\* the reward stored after the call is above 0.0; so every execute on a
\* session without a target returns -0.05, and so does the first submission
\* to a session when it scores 0.0.
C19_RewardValues ==
    /\ \A i \in DOMAIN instance_dict :
           instance_dict[i].reward \in {0, 50, 80, 100}
    /\ (last.op = "execute" /\ last.existed)
         => /\ last.exc = "none"
            /\ last.value \in {0, -5}
            /\ last.value = 0
                 => /\ Addressed.expected_result # None
                    /\ evals[last.instance_id].latest = "ok"
                    /\ Addressed.reward > 0
            /\ Addressed.expected_result = None => last.value = -5

C19_FirstStep ==
    ( /\ last'.op = "execute"
      /\ last'.instance_id \in DOMAIN instance_dict
      /\ evals[last'.instance_id].latest = "none"
      /\ ClaimReward(instance_dict'[last'.instance_id]) = 0 )
    => (last'.exc = "none" /\ last'.value = -5)

C19_ShapingValues == []C19_RewardValues /\ [][C19_FirstStep]_vars

====
